---------------------------- MODULE Spec2Model ----------------------------
(***************************************************************************)
(* A model of the executable content of the d2l-en notebooks:              *)
(*   - jax/chapter_convolutional-neural-networks/pooling.ipynb: pool2d     *)
(*   - mxnet/chapter_builders-guide/init-param.ipynb: parameter            *)
(*     initialization of a two-layer Gluon network, one action per cell   *)
(*   - jax/chapter_preliminaries/ndarray.ipynb: reshape, indexing, index  *)
(*     updates and broadcasting, the cells run from top to bottom         *)
(*                                                                         *)
(* Arrays are records [shape, data]; data is a 0-based function, as the    *)
(* code indexes it.  Real numbers are exact: pool2d's results are          *)
(* fractions [num, den] (float32 rounding is not modelled), and parameter  *)
(* values are fixed-point integers in thousandths (1.0 is 1000).  The      *)
(* arrays of ndarray.ipynb keep a row-major buffer beside their shape.     *)
(***************************************************************************)
EXTENDS Integers, Sequences, FiniteSets, TLC

VARIABLES
    \* pooling.ipynb: pool2d's arguments, locals and position
    X, pool_size, mode, Y, i, j, pcPool,
    \* for each output position written, the input positions its slice read
    reads,
    \* init-param.ipynb: the network's parameters, by name
    params,
    \* the cell that ran last, the value it displayed, the lines it printed
    lastCell, out, stdout,
    \* the statement of cell ca68a0e1 to run next (0 between cells)
    pcCell,
    \* history: the initializer last applied to each weight, the number of
    \* direct updates of dense0_weight since, and the weight values saved
    \* before the statements that C9 and C10 speak of
    lastInit, bumps, saved,
    \* ndarray.ipynb: the kernel's namespace (name -> array), the next cell,
    \* the arguments of the call the last cell made and the value it displayed
    env, pcNb, call, shown

poolVars == <<X, pool_size, mode, Y, i, j, pcPool, reads>>

paramVars == <<params, lastCell, out, stdout, pcCell, lastInit, bumps, saved>>

arrayVars == <<env, pcNb, call, shown>>

vars == <<X, pool_size, mode, Y, i, j, pcPool, reads,
          params, lastCell, out, stdout, pcCell, lastInit, bumps, saved,
          env, pcNb, call, shown>>

\* ------------------------------------------------------------------ bounds
\* Largest input height and width that Init enumerates exhaustively.
MaxH == 2

MaxW == 2

\* ------------------------------------------------------------ array helpers
Max2(a, b) == IF a >= b THEN a ELSE b

Min2(a, b) == IF a <= b THEN a ELSE b

Frac(n, d) == [num |-> n, den |-> d]

\* A 2-D array of the given shape whose element (r, c) is f[r][c].
Array2(rows, cols, f) ==
    [shape |-> <<rows, cols>>,
     data  |-> [r \in 0..(rows - 1) |-> [c \in 0..(cols - 1) |-> f[r][c]]]]

\* jnp.zeros((rows, cols)): float zeros.
Zeros(rows, cols) ==
    [shape |-> <<rows, cols>>,
     data  |-> [r \in 0..(rows - 1) |-> [c \in 0..(cols - 1) |-> Frac(0, 1)]]]

\* Python's clipping of a slice bound b to a dimension of length n (b >= 0).
ClipIndex(b, n) == Min2(Max2(b, 0), n)

\* The set of input positions that A[r0:r1, c0:c1] reads.
SliceIndices(A, r0, r1, c0, c1) ==
    {<<r, c>> \in (0..(A.shape[1] - 1)) \X (0..(A.shape[2] - 1)) :
        /\ ClipIndex(r0, A.shape[1]) <= r /\ r < ClipIndex(r1, A.shape[1])
        /\ ClipIndex(c0, A.shape[2]) <= c /\ c < ClipIndex(c1, A.shape[2])}

\* A[r0:r1, c0:c1]: the sub-array, bounds clipped to the array as Python does.
Slice2(A, r0, r1, c0, c1) ==
    LET a0 == ClipIndex(r0, A.shape[1])
        a1 == ClipIndex(r1, A.shape[1])
        b0 == ClipIndex(c0, A.shape[2])
        b1 == ClipIndex(c1, A.shape[2])
        rows == Max2(a1 - a0, 0)
        cols == Max2(b1 - b0, 0)
    IN  [shape |-> <<rows, cols>>,
         data  |-> [r \in 0..(rows - 1) |->
                      [c \in 0..(cols - 1) |-> A.data[a0 + r][b0 + c]]]]

\* The elements of a 2-D array in row-major order.
Flatten(A) ==
    [k \in 1..(A.shape[1] * A.shape[2]) |->
        A.data[(k - 1) \div A.shape[2]][(k - 1) % A.shape[2]]]

RECURSIVE SeqMax(_)
SeqMax(s) ==
    IF Len(s) = 1 THEN s[1] ELSE Max2(s[1], SeqMax(Tail(s)))

RECURSIVE SeqMin(_)
SeqMin(s) ==
    IF Len(s) = 1 THEN s[1] ELSE Min2(s[1], SeqMin(Tail(s)))

RECURSIVE SeqSum(_)
SeqSum(s) ==
    IF Len(s) = 0 THEN 0 ELSE s[1] + SeqSum(Tail(s))

\* A.max() of a non-empty array, mutated to the minimum.
ArrayMaxAsMin(A) == Frac(SeqMin(Flatten(A)), 1)

\* A.max() of a non-empty array.
ArrayMax(A) == Frac(SeqMax(Flatten(A)), 1)

\* A.mean(), mutated to forget the division by the number of elements.
ArrayMeanAsSum(A) == Frac(SeqSum(Flatten(A)), 1)

\* A.mean(): the sum of the elements over their number.
ArrayMean(A) == Frac(SeqSum(Flatten(A)), Len(Flatten(A)))

\* Y.at[r, c].set(v): a copy of Y with element (r, c) replaced.
AtSet(A, r, c, v) ==
    [A EXCEPT !.data = [A.data EXCEPT ![r] = [A.data[r] EXCEPT ![c] = v]]]

\* --------------------------------------------------------------- pool2d
\* The output shape, mutated to the input's shape less the window.
OutShapeNoPlusOne(A, ps) == <<A.shape[1] - ps[1], A.shape[2] - ps[2]>>

\* (X.shape[0] - p_h + 1, X.shape[1] - p_w + 1)
OutShape(A, ps) == <<A.shape[1] - ps[1] + 1, A.shape[2] - ps[2] + 1>>

\* The slice bounds, mutated to reach one row further down.
WindowBoundsTooTall(r, c, ps) == <<r, r + ps[1] + 1, c, c + ps[2]>>

\* The slice bounds i: i + p_h, j: j + p_w of output position (r, c).
WindowBounds(r, c, ps) == <<r, r + ps[1], c, c + ps[2]>>

Window(A, r, c, ps) ==
    LET b == WindowBounds(r, c, ps)
    IN  Slice2(A, b[1], b[2], b[3], b[4])

WindowReads(A, r, c, ps) ==
    LET b == WindowBounds(r, c, ps)
    IN  SliceIndices(A, b[1], b[2], b[3], b[4])

Modes == {"max", "avg", "sum"}

InputValues == {-1, 2}

\* The input and window of the notebook's cells 56552de9 and ee6b16b3.
NotebookX ==
    Array2(3, 3, [r \in 0..2 |-> [c \in 0..2 |-> 3 * r + c]])

NotebookPoolSize == <<2, 2>>

SmallInputs ==
    UNION {UNION {{Array2(h, w, f) : f \in [0..(h - 1) -> [0..(w - 1) -> InputValues]]} :
                    w \in 1..MaxW} : h \in 1..MaxH}

NoArray == [shape |-> <<0, 0>>, data |-> <<>>]

\* ndarray.ipynb not run.
ArrayIdle ==
    /\ env = <<>>
    /\ pcNb = "idle"
    /\ call = <<>>
    /\ shown = <<>>

PoolInit ==
    /\ ArrayIdle
    /\ \/ /\ X \in SmallInputs
          /\ pool_size \in (1..(MaxH + 1)) \X (1..(MaxW + 1))
          /\ mode \in Modes
       \/ /\ X = NotebookX
          /\ pool_size = NotebookPoolSize
          /\ mode \in {"max", "avg"}
    /\ Y = NoArray
    /\ i = 0
    /\ j = 0
    /\ pcPool = "call"
    /\ reads = <<>>
    /\ params = <<>>
    /\ lastCell = "none"
    /\ out = <<>>
    /\ stdout = <<>>
    /\ pcCell = 0
    /\ lastInit = <<>>
    /\ bumps = 0
    /\ saved = <<>>

\* p_h, p_w = pool_size; Y = jnp.zeros(...).  A negative dimension raises.
Pool2dEnter ==
    /\ pcPool = "call"
    /\ LET s == OutShape(X, pool_size)
       IN  IF s[1] < 0 \/ s[2] < 0
           THEN /\ pcPool' = "raised"
                /\ Y' = Y
           ELSE /\ pcPool' = "loop"
                /\ Y' = Zeros(s[1], s[2])
    /\ i' = 0
    /\ j' = 0
    /\ UNCHANGED <<X, pool_size, mode, reads>>
    /\ UNCHANGED <<paramVars, arrayVars>>

\* One pass of the inner loop body at (i, j), then the loops' increments.
Pool2dIter ==
    /\ pcPool = "loop"
    /\ i < Y.shape[1]
    /\ j < Y.shape[2]
    /\ Y' = CASE mode = "max" -> AtSet(Y, i, j, ArrayMax(Window(X, i, j, pool_size)))
              [] mode = "avg" -> AtSet(Y, i, j, ArrayMean(Window(X, i, j, pool_size)))
              [] OTHER -> Y
    /\ reads' = IF mode \in {"max", "avg"}
                THEN [p \in (DOMAIN reads) \cup {<<i, j>>} |->
                        IF p = <<i, j>> THEN WindowReads(X, i, j, pool_size)
                        ELSE reads[p]]
                ELSE reads
    /\ IF j + 1 < Y.shape[2]
       THEN i' = i /\ j' = j + 1
       ELSE i' = i + 1 /\ j' = 0
    /\ UNCHANGED <<X, pool_size, mode, pcPool>>
    /\ UNCHANGED <<paramVars, arrayVars>>

\* return Y, once both loops are exhausted.
Pool2dReturn ==
    /\ pcPool = "loop"
    /\ i >= Y.shape[1] \/ j >= Y.shape[2]
    /\ pcPool' = "done"
    /\ UNCHANGED <<X, pool_size, mode, Y, i, j, reads>>
    /\ UNCHANGED <<paramVars, arrayVars>>

PoolNext == Pool2dEnter \/ Pool2dIter \/ Pool2dReturn

SpecPool == PoolInit /\ [][PoolNext]_vars

\* ------------------------------------------------- properties of pool2d
\* The window fits in the input: 1 <= p_h <= h and 1 <= p_w <= w.
WindowFits ==
    /\ 1 <= pool_size[1] /\ pool_size[1] <= X.shape[1]
    /\ 1 <= pool_size[2] /\ pool_size[2] <= X.shape[2]

\* Output positions (r, c) with 0 <= r <= h - p_h and 0 <= c <= w - p_w.
OutputPositions ==
    (0..(X.shape[1] - pool_size[1])) \X (0..(X.shape[2] - pool_size[2]))

\* The input positions X[r .. r+p_h-1, c .. c+p_w-1].
WindowOf(r, c) ==
    (r..(r + pool_size[1] - 1)) \X (c..(c + pool_size[2] - 1))

RECURSIVE SumAt(_)
SumAt(S) ==
    IF S = {} THEN 0
    ELSE LET q == CHOOSE q \in S : TRUE
         IN  X.data[q[1]][q[2]] + SumAt(S \ {q})

IsMaxOf(v, S) ==
    /\ \E q \in S : X.data[q[1]][q[2]] = v
    /\ \A q \in S : X.data[q[1]][q[2]] <= v

\* The value of an output element equals the integer n.
FracIs(f, n) == f.den > 0 /\ f.num = n * f.den

\* C1: when pool2d returns in 'max' mode for a window that fits, every output
\* element Y[r, c] is the maximum of X[r .. r+p_h-1, c .. c+p_w-1]; the
\* notebook's X with a (2, 2) window gives [[4, 5], [7, 8]].
C1_MaxPooling ==
    (pcPool = "done" /\ mode = "max" /\ WindowFits) =>
        /\ \A p \in OutputPositions :
              /\ p[1] \in DOMAIN Y.data /\ p[2] \in DOMAIN Y.data[p[1]]
              /\ Y.data[p[1]][p[2]].den = 1
              /\ IsMaxOf(Y.data[p[1]][p[2]].num, WindowOf(p[1], p[2]))
        /\ (X = NotebookX /\ pool_size = NotebookPoolSize) =>
              /\ FracIs(Y.data[0][0], 4) /\ FracIs(Y.data[0][1], 5)
              /\ FracIs(Y.data[1][0], 7) /\ FracIs(Y.data[1][1], 8)

\* A returned max-pooling whose first window holds two different values.
C1_Witness ==
    /\ pcPool = "done" /\ mode = "max" /\ WindowFits
    /\ X = NotebookX /\ pool_size = NotebookPoolSize
    /\ Y.data[1][1] = Frac(8, 1)

\* C2: when pool2d returns in 'avg' mode for a window that fits, every output
\* element Y[r, c] is the sum of X[r .. r+p_h-1, c .. c+p_w-1] divided by
\* p_h * p_w; the notebook's X with a (2, 2) window gives [[2, 3], [5, 6]].
C2_AvgPooling ==
    (pcPool = "done" /\ mode = "avg" /\ WindowFits) =>
        /\ \A p \in OutputPositions :
              /\ p[1] \in DOMAIN Y.data /\ p[2] \in DOMAIN Y.data[p[1]]
              /\ Y.data[p[1]][p[2]].den > 0
              /\ Y.data[p[1]][p[2]].num * (pool_size[1] * pool_size[2])
                    = SumAt(WindowOf(p[1], p[2])) * Y.data[p[1]][p[2]].den
        /\ (X = NotebookX /\ pool_size = NotebookPoolSize) =>
              /\ FracIs(Y.data[0][0], 2) /\ FracIs(Y.data[0][1], 3)
              /\ FracIs(Y.data[1][0], 5) /\ FracIs(Y.data[1][1], 6)

\* A returned average pooling of the notebook's input.
C2_Witness ==
    /\ pcPool = "done" /\ mode = "avg" /\ WindowFits
    /\ X = NotebookX /\ pool_size = NotebookPoolSize
    /\ FracIs(Y.data[1][1], 6)

\* C3: no padding and stride one: once Y is allocated its shape is exactly
\* (h - p_h + 1, w - p_w + 1), the window read for output position (r, c)
\* starts at input position (r, c), and on return every output position of a
\* max or avg pooling has been visited.
C3_ShapeAndStride ==
    (pcPool \in {"loop", "done"} /\ WindowFits) =>
        /\ Y.shape = <<X.shape[1] - pool_size[1] + 1, X.shape[2] - pool_size[2] + 1>>
        /\ \A p \in DOMAIN reads :
              /\ p \in reads[p]
              /\ \A q \in reads[p] : q[1] >= p[1] /\ q[2] >= p[2]
        /\ (pcPool = "done" /\ mode \in {"max", "avg"}) =>
              DOMAIN reads = OutputPositions

\* A returned pooling with more than one output row and column.
C3_Witness ==
    /\ pcPool = "done" /\ WindowFits /\ mode = "avg"
    /\ Y.shape = <<2, 2>> /\ X.shape = <<3, 3>>
    /\ <<1, 1>> \in DOMAIN reads

\* C17: pool2d never reads outside its input: when the window fits, every
\* position (r, c) the loops visit has r + p_h - 1 <= h - 1 and
\* c + p_w - 1 <= w - 1, and the slice taken there holds exactly the
\* p_h * p_w elements X[r .. r+p_h-1, c .. c+p_w-1], none clipped away.
C17_WindowInsideInput ==
    (pcPool \in {"loop", "done"} /\ WindowFits) =>
        /\ \A p \in DOMAIN reads :
              /\ p[1] + pool_size[1] - 1 <= X.shape[1] - 1
              /\ p[2] + pool_size[2] - 1 <= X.shape[2] - 1
              /\ reads[p] = WindowOf(p[1], p[2])
              /\ Cardinality(reads[p]) = pool_size[1] * pool_size[2]
              /\ reads[p] \subseteq (0..(X.shape[1] - 1)) \X (0..(X.shape[2] - 1))
        /\ (pcPool = "loop" /\ i < Y.shape[1] /\ j < Y.shape[2]) =>
              /\ i + pool_size[1] - 1 <= X.shape[1] - 1
              /\ j + pool_size[2] - 1 <= X.shape[2] - 1

\* A returned pooling that visited the last position, whose window ends on
\* the input's last row and column.
C17_Witness ==
    /\ pcPool = "done" /\ WindowFits /\ mode = "max"
    /\ X = NotebookX /\ pool_size = NotebookPoolSize
    /\ <<1, 1>> \in DOMAIN reads
    /\ <<2, 2>> \in reads[<<1, 1>>]
    /\ Cardinality(reads[<<1, 1>>]) = 4

\* ------------------------------------- init-param.ipynb: the Gluon network
\* The hidden layer's width and the input's feature count, scaled down from
\* Dense(8) and size=(2, 4), and the number of direct updates followed.
HiddenUnits == 1

Features == 2

MaxBumps == 2

\* Dense(1) and the batch size of X.
OutUnits == 1

BatchSize == 2

\* Values in thousandths: U(-0.07, 0.07), sigma = 0.01, 1, 42, U(-10, 10), 5.
DefaultScale == 70

NormalSigma == 10

ConstantOne == 1000

ConstantFortyTwo == 42000

MyInitBound == 10000

MyInitThreshold == 5000

DirectIncrement == 1000

DirectValue == 42000

ParamNames == {"dense0_weight", "dense0_bias", "dense1_weight", "dense1_bias"}

WeightNames == {"dense0_weight", "dense1_weight"}

Dense0Params == {"dense0_weight", "dense0_bias"}

Dense1Params == {"dense1_weight", "dense1_bias"}

\* Initializer descriptors.
NoInit == [kind |-> "None", arg |-> 0]

Zero == [kind |-> "Zero", arg |-> 0]

Uniform(scale) == [kind |-> "Uniform", arg |-> scale]

Normal(sigma) == [kind |-> "Normal", arg |-> sigma]

Constant(value) == [kind |-> "Constant", arg |-> value]

Xavier == [kind |-> "Xavier", arg |-> 3]

MyInit == [kind |-> "MyInit", arg |-> 0]

Abs(v) == IF v < 0 THEN 0 - v ELSE v

\* The index tuples of an NDArray of the given shape (1-D or 2-D).
NDIndices(shape) ==
    IF Len(shape) = 1
    THEN {<<a>> : a \in 0..(shape[1] - 1)}
    ELSE (0..(shape[1] - 1)) \X (0..(shape[2] - 1))

ShapeKnown(shape) == \A d \in DOMAIN shape : shape[d] > 0

\* The random source: one of two draws for each element.
RandomDraws(shape) == [NDIndices(shape) -> {0, 1}]

NoDraw == <<>>

NeedsRandom(init) == init.kind \in {"Uniform", "Normal", "Xavier", "MyInit"}

\* np.random.uniform(low, high): draw 0 is low itself, draw 1 lies at 65% of
\* the interval.
UniformSample(low, high, u) ==
    IF u = 0 THEN low ELSE low + ((13 * (high - low)) \div 20)

\* A normal draw of mean 0: two deviations below, or one above.
NormalSample(sigma, u) == IF u = 0 THEN 0 - 2 * sigma ELSE sigma

\* The integer square root, by bisection: lo * lo <= n < hi * hi throughout.
RECURSIVE ISqrtBetween(_, _, _)
ISqrtBetween(n, lo, hi) ==
    IF hi - lo <= 1 THEN lo
    ELSE LET mid == (lo + hi) \div 2
         IN  IF mid * mid <= n THEN ISqrtBetween(n, mid, hi)
             ELSE ISqrtBetween(n, lo, mid)

\* For n below 2^31, whose root is below 46341.
ISqrt(n) == ISqrtBetween(n, 0, Min2(n + 1, 46341))

\* Xavier(): uniform on [-s, s] with s = sqrt(magnitude / ((fan_in + fan_out) / 2)),
\* in thousandths.
XavierScale(shape, magnitude) ==
    ISqrt((2 * magnitude * 1000000) \div (shape[1] + shape[2]))

\* data *= np.abs(data) >= 5, mutated to leave the data as drawn.
MaskSmallDropped(data) == data

\* data *= np.abs(data) >= 5
MaskSmall(data) ==
    [ix \in DOMAIN data |->
        data[ix] * (IF Abs(data[ix]) >= MyInitThreshold THEN 1 ELSE 0)]

\* MyInit._init_weight: data[:] = np.random.uniform(-10, 10, data.shape),
\* then the mask.
MyInitWeight(shape, rnd) ==
    MaskSmall([ix \in NDIndices(shape) |->
                  UniformSample(0 - MyInitBound, MyInitBound, rnd[ix])])

\* The values an initializer writes into an array of the given shape.
Fill(init, shape, rnd) ==
    CASE init.kind = "Uniform" ->
            [ix \in NDIndices(shape) |->
                UniformSample(0 - init.arg, init.arg, rnd[ix])]
      [] init.kind = "Normal" ->
            [ix \in NDIndices(shape) |-> NormalSample(init.arg, rnd[ix])]
      [] init.kind = "Constant" -> [ix \in NDIndices(shape) |-> init.arg]
      [] init.kind = "Zero" -> [ix \in NDIndices(shape) |-> 0]
      [] init.kind = "Xavier" ->
            LET scale == XavierScale(shape, init.arg)
            IN  [ix \in NDIndices(shape) |->
                    UniformSample(0 - scale, scale, rnd[ix])]
      [] init.kind = "MyInit" -> MyInitWeight(shape, rnd)

\* The initializer a parameter uses, mutated to let the caller's default win
\* over the parameter's own.
EffectiveInitDefaultWins(p, init, default_init) ==
    IF init.kind # "None" THEN init ELSE default_init

\* init = default_init if self.init is None else self.init
EffectiveInit(p, init, default_init) ==
    IF init.kind # "None" THEN init
    ELSE IF p.init.kind = "None" THEN default_init ELSE p.init

\* The guard of Parameter.initialize, mutated to ignore force_reinit.
SkipsInitializeIgnoringForce(p, force_reinit) == p.hasData

\* Parameter.initialize returns early when the parameter holds data and
\* force_reinit is not set.
SkipsInitialize(p, force_reinit) == p.hasData /\ ~force_reinit

\* Parameter.initialize(init, default_init, force_reinit).  With an unknown
\* shape the initializer is kept until the first forward pass.
ParamInitialize(p, init, default_init, force_reinit, rnd) ==
    IF SkipsInitialize(p, force_reinit) THEN p
    ELSE LET eff == EffectiveInit(p, init, default_init)
         IN  IF ShapeKnown(p.shape)
             THEN [p EXCEPT !.hasData = TRUE,
                            !.data = Fill(eff, p.shape, rnd),
                            !.deferred = NoInit]
             ELSE [p EXCEPT !.hasData = FALSE,
                            !.data = <<>>,
                            !.deferred = eff]

\* The parameters a block's initialize visits, mutated to the whole network's.
BlockParamsWholeNet(names) == ParamNames

\* The parameters a block's initialize visits: its own.
BlockParams(names) == names

\* Block.initialize(init, force_reinit): every parameter of the block is
\* initialized with init as the default.
BlockInitialize(ps, names, init, force_reinit, rnd) ==
    [n \in DOMAIN ps |->
        IF n \in BlockParams(names)
        THEN ParamInitialize(ps[n], NoInit, init, force_reinit, rnd[n])
        ELSE ps[n]]

\* net = nn.Sequential(); net.add(nn.Dense(8, activation='relu'));
\* net.add(nn.Dense(1)): no data yet, input widths unknown, biases with
\* their own 'zeros' initializer.
NewParam(shape, own) ==
    [shape |-> shape, init |-> own, hasData |-> FALSE, data |-> <<>>,
     deferred |-> NoInit]

Sequential ==
    [n \in ParamNames |->
        CASE n = "dense0_weight" -> NewParam(<<HiddenUnits, 0>>, NoInit)
          [] n = "dense0_bias"   -> NewParam(<<HiddenUnits>>, Zero)
          [] n = "dense1_weight" -> NewParam(<<OutUnits, 0>>, NoInit)
          [] n = "dense1_bias"   -> NewParam(<<OutUnits>>, Zero)]

\* The shapes the first forward pass infers from an input with the given
\* number of features.
InferredShape(n, shape, features) ==
    CASE n = "dense0_weight" -> <<shape[1], features>>
      [] n = "dense1_weight" -> <<shape[1], HiddenUnits>>
      [] OTHER -> shape

\* net(X): the first call fixes the input widths and finishes the deferred
\* initialization.
Forward(ps, features, rnd) ==
    [n \in DOMAIN ps |->
        LET p == ps[n]
            shape == IF ShapeKnown(p.shape) THEN p.shape
                     ELSE InferredShape(n, p.shape, features)
        IN  IF p.deferred.kind # "None"
            THEN [p EXCEPT !.shape = shape, !.hasData = TRUE,
                           !.data = Fill(p.deferred, shape, rnd[n]),
                           !.deferred = NoInit]
            ELSE [p EXCEPT !.shape = shape]]

\* The draws an initialization of parameter n consumes.
DrawsFor(n, shape, init) ==
    IF NeedsRandom(init) THEN RandomDraws(shape) ELSE {NoDraw}

Rnd4(a, b, c, d) ==
    [n \in ParamNames |->
        CASE n = "dense0_weight" -> a
          [] n = "dense0_bias"   -> b
          [] n = "dense1_weight" -> c
          [] n = "dense1_bias"   -> d]

\* Row r of a 2-D array: data()[r].
Row(p, r) == [c \in 0..(p.shape[2] - 1) |-> p.data[<<r, c>>]]

\* data()[:] += v
AddScalar(data, v) == [ix \in DOMAIN data |-> data[ix] + v]

\* data()[ix] = v
SetItem(data, ix, v) == [data EXCEPT ![ix] = v]

\* A write through the array data() returns, mutated to write to a copy.
WriteToCopy(p, data) == p

\* A write through the array data() returns: it is the parameter's own.
WriteThrough(p, data) == [p EXCEPT !.data = data]

\* ------------------------------------------ init-param.ipynb: the cells
ParamOrder == <<"dense0_weight", "dense0_bias", "dense1_weight", "dense1_bias">>

\* The draws that initializing the block's parameters with init consumes.
BlockDraws(ps, names, init, force_reinit, n) ==
    IF n \in BlockParams(names) /\ ~SkipsInitialize(ps[n], force_reinit)
    THEN DrawsFor(n, ps[n].shape, EffectiveInit(ps[n], NoInit, init))
    ELSE {NoDraw}

\* The lines 'Init <name> <shape>' that MyInit._init_weight prints, one for
\* each parameter it is called on.
InitPrints(ps, names, init, force_reinit) ==
    LET Called(n) == /\ n \in BlockParams(names)
                     /\ ~SkipsInitialize(ps[n], force_reinit)
                     /\ EffectiveInit(ps[n], NoInit, init).kind = "MyInit"
        called == SelectSeq(ParamOrder, Called)
    IN  [k \in DOMAIN called |-> <<"Init", called[k], ps[called[k]].shape>>]

\* The default initializer, mutated to U(-0.7, 0.7).
DefaultInitializerWide == Uniform(10 * DefaultScale)

\* The initializer of net.initialize() without arguments: U(-0.07, 0.07).
DefaultInitializer == Uniform(DefaultScale)

\* The parameters after cell 78c93393: a new network, net.initialize() with
\* the default initializer, and a first forward pass.
FirstCellParams(rnd) ==
    Forward(BlockInitialize(Sequential, ParamNames, DefaultInitializer, FALSE, rnd),
            Features, rnd)

FirstCellDraws(n) ==
    DrawsFor(n, InferredShape(n, Sequential[n].shape, Features),
             EffectiveInit(Sequential[n], NoInit, DefaultInitializer))

PoolIdle ==
    /\ X = NoArray
    /\ pool_size = <<1, 1>>
    /\ mode = "max"
    /\ Y = NoArray
    /\ i = 0
    /\ j = 0
    /\ pcPool = "idle"
    /\ reads = <<>>

\* The notebook after its first code cells.
ParamInit ==
    /\ PoolIdle
    /\ ArrayIdle
    /\ \E a \in FirstCellDraws("dense0_weight"), b \in FirstCellDraws("dense0_bias"),
          c \in FirstCellDraws("dense1_weight"), d \in FirstCellDraws("dense1_bias") :
          params = FirstCellParams(Rnd4(a, b, c, d))
    /\ lastCell = "78c93393"
    /\ out = <<BatchSize, OutUnits>>
    /\ stdout = <<>>
    /\ pcCell = 0
    /\ lastInit = [n \in WeightNames |-> Uniform(DefaultScale)]
    /\ bumps = 0
    /\ saved = <<>>

\* Cell 78c93393, run again.
Cell_78c93393 ==
    /\ pcCell = 0
    /\ \E a \in FirstCellDraws("dense0_weight"), b \in FirstCellDraws("dense0_bias"),
          c \in FirstCellDraws("dense1_weight"), d \in FirstCellDraws("dense1_bias") :
          params' = FirstCellParams(Rnd4(a, b, c, d))
    /\ lastCell' = "78c93393"
    /\ out' = <<BatchSize, OutUnits>>
    /\ stdout' = <<>>
    /\ lastInit' = [n \in WeightNames |-> Uniform(DefaultScale)]
    /\ bumps' = 0
    /\ saved' = <<>>
    /\ UNCHANGED <<pcCell, poolVars, arrayVars>>

\* block.initialize(init=init, force_reinit=True) on the parameters named.
InitializeForced(names, init) ==
    \E a \in BlockDraws(params, names, init, TRUE, "dense0_weight"),
       b \in BlockDraws(params, names, init, TRUE, "dense0_bias"),
       c \in BlockDraws(params, names, init, TRUE, "dense1_weight"),
       d \in BlockDraws(params, names, init, TRUE, "dense1_bias") :
       params' = BlockInitialize(params, names, init, TRUE, Rnd4(a, b, c, d))

\* Cell 0e59716f: net.initialize(init=init.Normal(sigma=0.01), force_reinit=True)
Cell_0e59716f ==
    /\ pcCell = 0
    /\ InitializeForced(ParamNames, Normal(NormalSigma))
    /\ lastCell' = "0e59716f"
    /\ out' = Row(params'["dense0_weight"], 0)
    /\ stdout' = <<>>
    /\ lastInit' = [n \in WeightNames |-> Normal(NormalSigma)]
    /\ bumps' = 0
    /\ saved' = <<>>
    /\ UNCHANGED <<pcCell, poolVars, arrayVars>>

\* Cell 993126ed: net.initialize(init=init.Constant(1), force_reinit=True)
Cell_993126ed ==
    /\ pcCell = 0
    /\ InitializeForced(ParamNames, Constant(ConstantOne))
    /\ lastCell' = "993126ed"
    /\ out' = Row(params'["dense0_weight"], 0)
    /\ stdout' = <<>>
    /\ lastInit' = [n \in WeightNames |-> Constant(ConstantOne)]
    /\ bumps' = 0
    /\ saved' = <<>>
    /\ UNCHANGED <<pcCell, poolVars, arrayVars>>

\* Cell ca68a0e1, first statement:
\* net[0].weight.initialize(init=init.Xavier(), force_reinit=True)
Cell_ca68a0e1_Xavier ==
    /\ pcCell = 0
    /\ \E a \in DrawsFor("dense0_weight", params["dense0_weight"].shape, Xavier) :
          params' = [params EXCEPT !["dense0_weight"] =
                        ParamInitialize(@, Xavier, DefaultInitializer, TRUE, a)]
    /\ pcCell' = 1
    /\ lastCell' = "ca68a0e1"
    /\ lastInit' = [lastInit EXCEPT !["dense0_weight"] = Xavier]
    /\ bumps' = 0
    /\ saved' = params'["dense0_weight"].data
    /\ UNCHANGED <<out, stdout, poolVars, arrayVars>>

\* Cell ca68a0e1, the rest:
\* net[1].initialize(init=init.Constant(42), force_reinit=True) and the prints.
Cell_ca68a0e1_Constant ==
    /\ pcCell = 1
    /\ InitializeForced(Dense1Params, Constant(ConstantFortyTwo))
    /\ pcCell' = 0
    /\ stdout' = <<Row(params'["dense0_weight"], 0), params'["dense1_weight"].data>>
    /\ out' = <<>>
    /\ lastInit' = [lastInit EXCEPT !["dense1_weight"] = Constant(ConstantFortyTwo)]
    /\ UNCHANGED <<lastCell, bumps, saved, poolVars, arrayVars>>

\* Cell abd0ce5c: net.initialize(MyInit(), force_reinit=True)
Cell_abd0ce5c ==
    /\ pcCell = 0
    /\ InitializeForced(ParamNames, MyInit)
    /\ lastCell' = "abd0ce5c"
    /\ stdout' = InitPrints(params, ParamNames, MyInit, TRUE)
    /\ out' = [r \in 0..(Min2(2, params'["dense0_weight"].shape[1]) - 1) |->
                  Row(params'["dense0_weight"], r)]
    /\ lastInit' = [n \in WeightNames |-> MyInit]
    /\ bumps' = 0
    /\ saved' = <<>>
    /\ UNCHANGED <<pcCell, poolVars, arrayVars>>

\* Cell 22e132be: net[0].weight.data()[:] += 1;
\* net[0].weight.data()[0, 0] = 42; net[0].weight.data()[0]
Cell_22e132be ==
    /\ pcCell = 0
    /\ bumps < MaxBumps
    /\ LET p0 == params["dense0_weight"]
           p1 == WriteThrough(p0, AddScalar(p0.data, DirectIncrement))
           p2 == WriteThrough(p1, SetItem(p1.data, <<0, 0>>, DirectValue))
       IN  /\ params' = [params EXCEPT !["dense0_weight"] = p2]
           /\ out' = Row(p2, 0)
           /\ saved' = p0.data
    /\ lastCell' = "22e132be"
    /\ stdout' = <<>>
    /\ bumps' = bumps + 1
    /\ UNCHANGED <<pcCell, lastInit, poolVars, arrayVars>>

ParamNext ==
    \/ Cell_78c93393
    \/ Cell_0e59716f
    \/ Cell_993126ed
    \/ Cell_ca68a0e1_Xavier
    \/ Cell_ca68a0e1_Constant
    \/ Cell_abd0ce5c
    \/ Cell_22e132be

SpecParams == ParamInit /\ [][ParamNext]_vars

\* --------------------------------- properties of parameter initialization
Weight0 == params["dense0_weight"]

Weight1 == params["dense1_weight"]

\* The values an initializer can write into an element of an array.
ValuesOf(init, shape) ==
    UNION {{Fill(init, shape, [jx \in NDIndices(shape) |-> u])[ix] :
                ix \in NDIndices(shape)} : u \in {0, 1}}

AllElements(p, v) == \A ix \in NDIndices(p.shape) : p.data[ix] = v

\* C4: after net.initialize(MyInit(), force_reinit=True) every element w of
\* every weight is 0 or has 5 <= |w| <= 10; none has 0 < |w| < 5.
C4_MyInitSupport ==
    lastCell = "abd0ce5c" =>
        \A n \in WeightNames :
            /\ params[n].hasData
            /\ \A ix \in NDIndices(params[n].shape) :
                  \/ params[n].data[ix] = 0
                  \/ /\ MyInitThreshold <= Abs(params[n].data[ix])
                     /\ Abs(params[n].data[ix]) <= MyInitBound

\* MyInit has run, and dense0_weight holds a masked and a kept element.
C4_Witness ==
    /\ lastCell = "abd0ce5c"
    /\ \E ix \in NDIndices(Weight0.shape) : Weight0.data[ix] = 0
    /\ \E ix \in NDIndices(Weight0.shape) : Abs(Weight0.data[ix]) >= MyInitThreshold

\* C5: after any sequence of forced initializations every weight holds only
\* values of the initializer applied to it last (dense0_weight: unless it was
\* updated directly since).
C5_ForceReinit ==
    \A n \in WeightNames :
        (n = "dense0_weight" => bumps = 0) =>
            /\ params[n].hasData
            /\ \A ix \in NDIndices(params[n].shape) :
                  params[n].data[ix] \in ValuesOf(lastInit[n], params[n].shape)

\* Three initializations in a row: the default, then Xavier on one weight and
\* a constant on the other.
C5_Witness ==
    /\ pcCell = 0 /\ lastCell = "ca68a0e1" /\ bumps = 0
    /\ lastInit["dense0_weight"].kind = "Xavier"
    /\ lastInit["dense1_weight"].kind = "Constant"
    /\ AllElements(Weight1, ConstantFortyTwo)

\* C6 as claimed: after net.initialize(init=init.Constant(1),
\* force_reinit=True) every element of every parameter of the network is 1.
C6_AllParametersOne ==
    lastCell = "993126ed" =>
        \A n \in ParamNames : AllElements(params[n], ConstantOne)

\* C7: after net.initialize() or net.initialize(init=init.Normal(sigma=0.01),
\* force_reinit=True) every bias element is zero, and the weights hold values
\* of the initializer.
C7_BiasCleared ==
    lastCell \in {"78c93393", "0e59716f"} =>
        /\ \A n \in ParamNames \ WeightNames :
              params[n].hasData /\ AllElements(params[n], 0)
        /\ \A n \in WeightNames :
              \A ix \in NDIndices(params[n].shape) :
                  params[n].data[ix] \in
                      ValuesOf(IF lastCell = "78c93393" THEN Uniform(DefaultScale)
                               ELSE Normal(NormalSigma), params[n].shape)

\* The Gaussian initialization has run: weights nonzero, biases zero.
C7_Witness ==
    /\ lastCell = "0e59716f"
    /\ Weight0.data[<<0, 0>>] # 0
    /\ AllElements(params["dense0_bias"], 0)
    /\ AllElements(params["dense1_bias"], 0)

\* C8: after net.initialize() with no initializer every weight element lies
\* in [-0.07, 0.07].
C8_DefaultRange ==
    lastCell = "78c93393" =>
        \A n \in WeightNames :
            /\ params[n].hasData
            /\ \A ix \in NDIndices(params[n].shape) :
                  /\ 0 - DefaultScale <= params[n].data[ix]
                  /\ params[n].data[ix] <= DefaultScale

\* The default initialization with a draw at the interval's lower end and one
\* inside it.
C8_Witness ==
    /\ lastCell = "78c93393"
    /\ Weight0.data[<<0, 0>>] = 0 - DefaultScale
    /\ Weight0.data[<<0, 1>>] > 0 - DefaultScale

\* C9: after cell ca68a0e1 every element of net[1].weight is 42, and
\* net[0].weight is exactly as the Xavier call left it.
C9_BlockwiseInit ==
    (lastCell = "ca68a0e1" /\ pcCell = 0) =>
        /\ AllElements(Weight1, ConstantFortyTwo)
        /\ Weight0.data = saved

\* Cell ca68a0e1 has run to its end.
C9_Witness ==
    /\ lastCell = "ca68a0e1" /\ pcCell = 0
    /\ Weight0.data = saved
    /\ Weight0.data[<<0, 0>>] # ConstantFortyTwo
    /\ AllElements(Weight1, ConstantFortyTwo)

\* C10: after cell 22e132be, net[0].weight.data() reads 42 at [0, 0] and, at
\* every other position, the value held before the cell plus 1.
C10_DirectSet ==
    lastCell = "22e132be" =>
        /\ Weight0.data[<<0, 0>>] = DirectValue
        /\ \A ix \in NDIndices(Weight0.shape) \ {<<0, 0>>} :
              Weight0.data[ix] = saved[ix] + DirectIncrement
        /\ out = Row(Weight0, 0)

\* The direct update of a freshly initialized weight.
C10_Witness ==
    /\ lastCell = "22e132be" /\ bumps = 1
    /\ Weight0.data[<<0, 0>>] = DirectValue
    /\ Weight0.data[<<0, 1>>] = saved[<<0, 1>>] + DirectIncrement
    /\ saved[<<0, 0>>] # DirectValue - DirectIncrement

\* ------------------------------------------- ndarray.ipynb: jax.numpy
\* Lengths of x that Init enumerates besides the notebook's, and the largest
\* operands of the broadcast sum.
MaxLen == 6

MaxA == 3

MaxB == 2

\* jnp.arange(12), .set(17) and .set(12).
NotebookLen == 12

SetValue == 17

FillValue == 12

\* An array: its shape and its elements in row-major order, from 0.
NDArray(shape, buf) == [shape |-> shape, buf |-> buf]

RECURSIVE Product(_)
Product(shape) ==
    IF Len(shape) = 0 THEN 1 ELSE shape[1] * Product(Tail(shape))

\* x.size
Size(A) == Product(A.shape)

\* jnp.arange(n)
Arange(n) == NDArray(<<n>>, [k \in 0..(n - 1) |-> k])

\* The shape that reshape(args) gives an array of the given size, or <<>>
\* when reshape raises: at most one component may be -1, it is inferred as
\* size / (the other), and the components must multiply to the size.
\* Mutated to infer the component as the size less the other.
ResolveShapeBySubtraction(size, args) ==
    CASE args[1] = -1 /\ args[2] = -1 -> <<>>
      [] args[1] = -1 -> <<size - args[2], args[2]>>
      [] args[2] = -1 -> <<args[1], size - args[1]>>
      [] OTHER -> IF args[1] * args[2] = size THEN args ELSE <<>>

ResolveShape(size, args) ==
    CASE args[1] = -1 /\ args[2] = -1 -> <<>>
      [] args[1] = -1 ->
            IF size % args[2] = 0 THEN <<size \div args[2], args[2]>> ELSE <<>>
      [] args[2] = -1 ->
            IF size % args[1] = 0 THEN <<args[1], size \div args[1]>> ELSE <<>>
      [] OTHER -> IF args[1] * args[2] = size THEN args ELSE <<>>

\* The buffer of a reshaped array, mutated to column-major (Fortran) order.
ReshapeBufferColumnMajor(A, shape) ==
    [k \in 0..(Size(A) - 1) |->
        A.buf[(k % shape[2]) * shape[1] + (k \div shape[2])]]

\* The buffer of a reshaped array: the elements keep their order.
ReshapeBuffer(A, shape) == A.buf

\* A.reshape(args), for args that ResolveShape accepts.
Reshape(A, args) ==
    LET shape == ResolveShape(Size(A), args)
    IN  NDArray(shape, ReshapeBuffer(A, shape))

\* A[r, c] of a 2-D array.
Item2(A, r, c) == A.buf[r * A.shape[2] + c]

\* A negative index counts from the end.
NormIndex(idx, len) == IF idx < 0 THEN idx + len ELSE idx

\* A[idx] of a 2-D array: a row.
RowAt(A, idx) ==
    LET r == NormIndex(idx, A.shape[1])
    IN  NDArray(<<A.shape[2]>>,
                [c \in 0..(A.shape[2] - 1) |-> A.buf[r * A.shape[2] + c]])

\* The rows that A[start:stop] takes: first row and number of rows.  Mutated
\* to include row stop.
RowRangeInclusive(A, start, stop) ==
    LET s0 == ClipIndex(start, A.shape[1])
        s1 == ClipIndex(stop + 1, A.shape[1])
    IN  <<s0, Max2(s1 - s0, 0)>>

\* The rows that A[start:stop] takes (start, stop >= 0), clipped as Python
\* clips a slice.
RowRange(A, start, stop) ==
    LET s0 == ClipIndex(start, A.shape[1])
        s1 == ClipIndex(stop, A.shape[1])
    IN  <<s0, Max2(s1 - s0, 0)>>

\* A[start:stop] of a 2-D array.
RowSlice(A, start, stop) ==
    LET rr == RowRange(A, start, stop)
    IN  NDArray(<<rr[2], A.shape[2]>>,
                [k \in 0..(rr[2] * A.shape[2] - 1) |->
                    A.buf[rr[1] * A.shape[2] + k]])

\* A.at[r, c].set(v): a new array.
NDAtSet(A, r, c, v) ==
    NDArray(A.shape, [A.buf EXCEPT ![r * A.shape[2] + c] = v])

\* Whether A.at[:stop, :].set(v) writes row r.  Mutated to write row stop too.
InRowPrefixInclusive(A, stop, r) == r <= ClipIndex(stop, A.shape[1])

\* Whether A.at[:stop, :].set(v) writes row r.
InRowPrefix(A, stop, r) == r < ClipIndex(stop, A.shape[1])

\* A.at[:stop, :].set(v): a new array.
NDSliceSet(A, stop, v) ==
    NDArray(A.shape,
            [k \in DOMAIN A.buf |->
                IF InRowPrefix(A, stop, k \div A.shape[2]) THEN v ELSE A.buf[k]])

\* The namespace after name = value.
Bind(e, name, value) ==
    [k \in (DOMAIN e) \cup {name} |-> IF k = name THEN value ELSE e[k]]

\* dst = src.at[r, c].set(v), mutated to update src in place as well.
BindAtSetInPlace(e, dst, src, r, c, v) ==
    Bind(Bind(e, src, NDAtSet(e[src], r, c, v)), dst, NDAtSet(e[src], r, c, v))

\* dst = src.at[r, c].set(v)
BindAtSet(e, dst, src, r, c, v) == Bind(e, dst, NDAtSet(e[src], r, c, v))

\* The shape two 2-D shapes broadcast to, or <<>> when they do not: along
\* each axis the lengths are equal or one of them is 1.
BroadcastShape(s, t) ==
    IF \A d \in 1..2 : s[d] = t[d] \/ s[d] = 1 \/ t[d] = 1
    THEN [d \in 1..2 |-> Max2(s[d], t[d])]
    ELSE <<>>

\* The element of A that position (r, c) of its broadcast copy holds, mutated
\* to copy A's first element everywhere.
BroadcastItemFirst(A, r, c) == A.buf[0]

\* The element of A that position (r, c) of its broadcast copy holds: along
\* an axis of length 1 the element is copied.
BroadcastItem(A, r, c) ==
    Item2(A, IF A.shape[1] = 1 THEN 0 ELSE r, IF A.shape[2] = 1 THEN 0 ELSE c)

\* A expanded to the given shape.
BroadcastTo(A, shape) ==
    NDArray(shape,
            [k \in 0..(shape[1] * shape[2] - 1) |->
                BroadcastItem(A, k \div shape[2], k % shape[2])])

\* A + B: both operands expanded to the common shape, then added elementwise.
Add(A, B) ==
    LET shape == BroadcastShape(A.shape, B.shape)
        A1 == BroadcastTo(A, shape)
        B1 == BroadcastTo(B, shape)
    IN  NDArray(shape, [k \in DOMAIN A1.buf |-> A1.buf[k] + B1.buf[k]])

\* init-param.ipynb not run.
ParamIdle ==
    /\ params = <<>>
    /\ lastCell = "none"
    /\ out = <<>>
    /\ stdout = <<>>
    /\ pcCell = 0
    /\ lastInit = <<>>
    /\ bumps = 0
    /\ saved = <<>>

\* A fresh kernel, before the first code cell.
ArrayInit ==
    /\ PoolIdle
    /\ ParamIdle
    /\ env = <<>>
    /\ pcNb = "27e3884e"
    /\ call = <<>>
    /\ shown = <<>>

\* x = jnp.arange(12); x
Cell_27e3884e ==
    /\ pcNb = "27e3884e"
    /\ \E n \in (1..MaxLen) \cup {NotebookLen} :
          /\ env' = Bind(env, "x", Arange(n))
          /\ call' = <<n>>
          /\ shown' = Arange(n)
    /\ pcNb' = "1f9fe8b2"
    /\ UNCHANGED <<poolVars, paramVars>>

\* The arguments reshape is called with: each a length or -1.
ReshapeArgs(n) == ({-1} \cup (1..n)) \X ({-1} \cup (1..n))

\* X = x.reshape(3, 4); X.  A shape that does not fit raises.
Cell_1f9fe8b2 ==
    /\ pcNb = "1f9fe8b2"
    /\ \E args \in ReshapeArgs(Size(env["x"])) :
          /\ call' = args
          /\ IF ResolveShape(Size(env["x"]), args) = <<>>
             THEN /\ pcNb' = "raised"
                  /\ shown' = <<>>
                  /\ env' = env
             ELSE /\ pcNb' = "37fdae19"
                  /\ shown' = Reshape(env["x"], args)
                  /\ env' = Bind(env, "X", Reshape(env["x"], args))
    /\ UNCHANGED <<poolVars, paramVars>>

\* X[-1], X[1:3]
Cell_37fdae19 ==
    /\ pcNb = "37fdae19"
    /\ LET h == env["X"].shape[1]
       IN  \E idx \in (-h)..(h - 1), start \in 0..(h + 1), stop \in 0..(h + 1) :
              /\ call' = <<idx, start, stop>>
              /\ shown' = <<RowAt(env["X"], idx), RowSlice(env["X"], start, stop)>>
    /\ pcNb' = "5174cdd6"
    /\ UNCHANGED <<env, poolVars, paramVars>>

\* X_new_1 = X.at[1, 2].set(17); X_new_1
Cell_5174cdd6 ==
    /\ pcNb = "5174cdd6"
    /\ \E r \in 0..(env["X"].shape[1] - 1), c \in 0..(env["X"].shape[2] - 1) :
          /\ call' = <<r, c, SetValue>>
          /\ env' = BindAtSet(env, "X_new_1", "X", r, c, SetValue)
          /\ shown' = NDAtSet(env["X"], r, c, SetValue)
    /\ pcNb' = "f8c07008"
    /\ UNCHANGED <<poolVars, paramVars>>

\* X_new_2 = X_new_1.at[:2, :].set(12); X_new_2
Cell_f8c07008 ==
    /\ pcNb = "f8c07008"
    /\ \E stop \in 0..(env["X_new_1"].shape[1] + 1) :
          /\ call' = <<stop, FillValue>>
          /\ env' = Bind(env, "X_new_2", NDSliceSet(env["X_new_1"], stop, FillValue))
          /\ shown' = NDSliceSet(env["X_new_1"], stop, FillValue)
    /\ pcNb' = "95a0c599"
    /\ UNCHANGED <<poolVars, paramVars>>

\* a = jnp.arange(3).reshape((3, 1)); b = jnp.arange(2).reshape((1, 2)); a, b
Cell_95a0c599 ==
    /\ pcNb = "95a0c599"
    /\ \E m \in 1..MaxA, n \in 1..MaxB :
          /\ call' = <<m, n>>
          /\ env' = Bind(Bind(env, "a", Reshape(Arange(m), <<m, 1>>)),
                         "b", Reshape(Arange(n), <<1, n>>))
          /\ shown' = <<Reshape(Arange(m), <<m, 1>>), Reshape(Arange(n), <<1, n>>)>>
    /\ pcNb' = "07526f38"
    /\ UNCHANGED <<poolVars, paramVars>>

\* a + b
Cell_07526f38 ==
    /\ pcNb = "07526f38"
    /\ call' = <<"a", "b">>
    /\ shown' = Add(env["a"], env["b"])
    /\ pcNb' = "done"
    /\ UNCHANGED <<env, poolVars, paramVars>>

ArrayNext ==
    \/ Cell_27e3884e
    \/ Cell_1f9fe8b2
    \/ Cell_37fdae19
    \/ Cell_5174cdd6
    \/ Cell_f8c07008
    \/ Cell_95a0c599
    \/ Cell_07526f38

SpecArray == ArrayInit /\ [][ArrayNext]_vars

\* The positions of a 2-D array.
Positions(A) == (0..(A.shape[1] - 1)) \X (0..(A.shape[2] - 1))

\* The cell that bound X has returned.
Reshaped == pcNb = "37fdae19"

\* C11: reshape changes the shape and neither the size nor the values: X has
\* as many elements as x, and they are laid out one row at a time, X[i, j]
\* being x[i * w + j]; for the shape (3, 4), x[3] is X[0, 3].
C11_ReshapeRowMajor ==
    Reshaped =>
        /\ Size(env["X"]) = Size(env["x"])
        /\ Len(env["X"].shape) = 2
        /\ \A q \in Positions(env["X"]) :
              Item2(env["X"], q[1], q[2]) = env["x"].buf[q[1] * env["X"].shape[2] + q[2]]
        /\ env["X"].shape = <<3, 4>> => Item2(env["X"], 0, 3) = env["x"].buf[3]

\* x.reshape(3, 4) of the twelve-element vector.
C11_Witness ==
    /\ Reshaped
    /\ call = <<3, 4>>
    /\ env["x"] = Arange(NotebookLen)
    /\ Item2(env["X"], 0, 3) = 3
    /\ Item2(env["X"], 2, 0) = 8

\* C12: a shape component given as -1 is inferred from the size and the other
\* component (w = n / h, h = n / w), and the call returns the same tensor as
\* the call that spells the whole shape out; for twelve elements
\* x.reshape(-1, 4), x.reshape(3, -1) and x.reshape(3, 4) agree.
C12_InferredShape ==
    (Reshaped /\ -1 \in {call[1], call[2]}) =>
        /\ call[1] = -1 =>
              env["X"].shape = <<Size(env["x"]) \div call[2], call[2]>>
        /\ call[2] = -1 =>
              env["X"].shape = <<call[1], Size(env["x"]) \div call[1]>>
        /\ env["X"].shape[1] * env["X"].shape[2] = Size(env["x"])
        /\ ResolveShape(Size(env["x"]), env["X"].shape) = env["X"].shape
        /\ env["X"] = Reshape(env["x"], env["X"].shape)
        /\ (Size(env["x"]) = NotebookLen /\ call \in {<<-1, 4>>, <<3, -1>>}) =>
              env["X"] = Reshape(env["x"], <<3, 4>>)

\* x.reshape(-1, 4) of the twelve-element vector.
C12_Witness ==
    /\ Reshaped
    /\ call = <<-1, 4>>
    /\ Size(env["x"]) = NotebookLen
    /\ env["X"].shape = <<3, 4>>

\* The cell that indexes X has returned.
Indexed == pcNb = "5174cdd6"

\* C16: indices start at 0 and a negative index counts from the end, so X[-1]
\* is the last row; X[start:stop] holds the rows start .. stop - 1, so X[1:3]
\* is the second and third rows.
C16_IndexAndSlice ==
    Indexed =>
        LET A == env["X"]
            h == A.shape[1]
            w == A.shape[2]
            idx == call[1]
            start == call[2]
            stop == call[3]
            row == shown[1]
            rows == shown[2]
        IN  /\ row.shape = <<w>>
            /\ idx >= 0 => \A c \in 0..(w - 1) : row.buf[c] = Item2(A, idx, c)
            /\ idx < 0 => \A c \in 0..(w - 1) : row.buf[c] = Item2(A, h + idx, c)
            /\ idx = -1 => \A c \in 0..(w - 1) : row.buf[c] = Item2(A, h - 1, c)
            /\ (start <= stop /\ stop <= h) =>
                  /\ rows.shape = <<stop - start, w>>
                  /\ \A k \in 0..(stop - start - 1), c \in 0..(w - 1) :
                        Item2(rows, k, c) = Item2(A, start + k, c)

\* X[-1], X[1:3] of the (3, 4) matrix.
C16_Witness ==
    /\ Indexed
    /\ call = <<-1, 1, 3>>
    /\ env["X"] = Reshape(Arange(NotebookLen), <<3, 4>>)
    /\ shown[1].buf[0] = 8
    /\ shown[2].shape = <<2, 4>>
    /\ Item2(shown[2], 0, 0) = 4
    /\ Item2(shown[2], 1, 3) = 11

\* The cell that bound X_new_1 has returned.
Updated == pcNb = "f8c07008"

\* C14: X.at[i, j].set(v) returns a new array that holds v at [i, j] and X's
\* elements elsewhere, and leaves X as it was: after
\* X_new_1 = X.at[1, 2].set(17), X[1, 2] is still 6.
C14_AtSetNewArray ==
    Updated =>
        LET A == env["X"]
            B == env["X_new_1"]
        IN  /\ A = Reshape(env["x"], A.shape)
            /\ B.shape = A.shape
            /\ Item2(B, call[1], call[2]) = call[3]
            /\ \A q \in Positions(A) \ {<<call[1], call[2]>>} :
                  Item2(B, q[1], q[2]) = Item2(A, q[1], q[2])
            /\ (A.shape = <<3, 4>> /\ Size(env["x"]) = NotebookLen) =>
                  Item2(A, 1, 2) = 6

\* X.at[1, 2].set(17) of the (3, 4) matrix.
C14_Witness ==
    /\ Updated
    /\ call = <<1, 2, SetValue>>
    /\ env["X"].shape = <<3, 4>>
    /\ Item2(env["X"], 1, 2) = 6
    /\ Item2(env["X_new_1"], 1, 2) = 17

\* The cell that bound X_new_2 has returned.
Filled == pcNb = "95a0c599"

\* C15: X_new_1.at[:stop, :].set(v) returns an array whose rows before stop
\* hold v everywhere and whose other rows equal those of X_new_1; with
\* [:2, :] and 12, rows 0 and 1 are all 12.
C15_SliceSet ==
    Filled =>
        LET B == env["X_new_1"]
            D == env["X_new_2"]
            stop == call[1]
        IN  /\ D.shape = B.shape
            /\ \A q \in Positions(B) :
                  Item2(D, q[1], q[2]) =
                      IF q[1] < stop THEN call[2] ELSE Item2(B, q[1], q[2])
            /\ stop = 2 =>
                  \A q \in Positions(B) : q[1] \in {0, 1} => Item2(D, q[1], q[2]) = 12

\* X_new_1.at[:2, :].set(12) of the (3, 4) matrix.
C15_Witness ==
    /\ Filled
    /\ call = <<2, FillValue>>
    /\ env["X_new_1"].shape = <<3, 4>>
    /\ Item2(env["X_new_2"], 0, 0) = 12
    /\ Item2(env["X_new_2"], 1, 3) = 12
    /\ Item2(env["X_new_2"], 2, 0) = 8

\* The sum a + b has been displayed.
Summed == pcNb = "done"

\* C13: the sum of an (m, 1) and a (1, n) array has the shape (m, n), and its
\* element [i, j] is a[i, 0] + b[0, j]; a = [[0], [1], [2]] and b = [[0, 1]]
\* give [[0, 1], [1, 2], [2, 3]].
C13_Broadcast ==
    Summed =>
        LET A == env["a"]
            B == env["b"]
        IN  /\ A.shape[2] = 1 /\ B.shape[1] = 1
            /\ shown.shape = <<A.shape[1], B.shape[2]>>
            /\ \A q \in Positions(shown) :
                  Item2(shown, q[1], q[2]) = Item2(A, q[1], 0) + Item2(B, 0, q[2])
            /\ (A.shape[1] = 3 /\ B.shape[2] = 2) =>
                  shown.buf = [k \in 0..5 |-> (k \div 2) + (k % 2)]

\* The notebook's a + b.
C13_Witness ==
    /\ Summed
    /\ env["a"].shape = <<3, 1>>
    /\ env["b"].shape = <<1, 2>>
    /\ Item2(shown, 0, 1) = 1
    /\ Item2(shown, 1, 1) = 2
    /\ Item2(shown, 2, 0) = 2
    /\ Item2(shown, 2, 1) = 3

=============================================================================
